---- MODULE Spec2Model ----
\* Face attendance application (src/app.py): face gallery, matcher, attendance
\* ledger, class registry and report export, as the Streamlit script runs them.
\* One action is one run of the script for one browser session with one widget
\* active; the files, the Drive store, the spreadsheet and the read cache are
\* shared by all sessions.
EXTENDS Integers, Sequences, FiniteSets, TLC

\* ---------------------------------------------------------------- bounds
MaxGallery == 2      \* registrations accepted in one exploration
MaxFolders == 4      \* Drive folder creations in one exploration
MaxUploads == 2      \* accepted check-ins (photo uploads) in one exploration
MaxDay == 2          \* calendar days the clock runs through

\* ---------------------------------------------------------------- constants
\* 0.45, in thousandths of the embedding-space unit
Threshold == 450
\* admitted phone lengths
MinPhoneLen == 10
MaxPhoneLen == 15

Sessions == {"s1", "s2"}

\* DEFAULT_CLASS_LIST, shortened to its first two entries
DEFAULT_CLASS_LIST == <<"BVI3114", "BVI3124">>
DefaultNames == {DEFAULT_CLASS_LIST[i] : i \in DOMAIN DEFAULT_CLASS_LIST}
\* what the admin may type as a class name: empty, blank, new, existing
TypedClassNames == {"", " ", "NEW", "BVI3114"}
ClassNames == DefaultNames \cup {"NEW"}
\* the value a select box yields when it has no option
None == "<None>"

\* face embeddings, one-dimensional, in thousandths
Embeddings == {0, 449, 450, 900}
\* a captured image is the sequence of faces the extractor finds in it
Image(fs) == [captured |-> TRUE, faces |-> fs]
NoImage == [captured |-> FALSE, faces |-> <<>>]
\* the images of the registration form and of the check-in camera
RegImages == {Image(<<>>), Image(<<0>>), Image(<<450>>), Image(<<0, 450>>),
              Image(<<450, 0>>)}
Images == {Image(<<>>), Image(<<0>>), Image(<<449>>), Image(<<900>>), Image(<<900, 0>>)}

Digits == {"0", "1", "2", "3", "4", "5", "6", "7", "8", "9"}
Chars(n, c) == [i \in 1..n |-> c]
GoodEmail == <<"a", "@", "b", ".", "c">>
GoodPhone == Chars(MinPhoneLen, "1")
TypedEmails == {<<>>, <<"a", "@", "b">>, <<"a", ".", "b">>, GoodEmail}
TypedPhones == {<<>>, Chars(MinPhoneLen - 1, "1"), GoodPhone, Chars(MaxPhoneLen, "2"),
                Chars(MaxPhoneLen + 1, "1"), [Chars(MinPhoneLen, "1") EXCEPT ![1] = "x"]}
TypedNames == {"", "Ann", "Bob"}
TypedIds == {"", "S1"}

BlankForm == [name |-> "", id |-> "", email |-> <<>>, phone |-> <<>>, img |-> NoImage]
GoodForm == [name |-> "Ann", id |-> "S1", email |-> GoodEmail, phone |-> GoodPhone,
             img |-> Image(<<0>>)]
\* the forms a user submits: a good form with at most one field changed, or
\* with the name and the image changed
RegForms ==
    {[GoodForm EXCEPT !.name = n] : n \in TypedNames}
    \cup {[GoodForm EXCEPT !.id = i] : i \in TypedIds}
    \cup {[GoodForm EXCEPT !.email = e] : e \in TypedEmails}
    \cup {[GoodForm EXCEPT !.phone = p] : p \in TypedPhones}
    \cup {[GoodForm EXCEPT !.img = g] : g \in RegImages \cup {NoImage}}
    \cup {[GoodForm EXCEPT !.name = "Bob", !.img = g] : g \in RegImages}
    \cup {[GoodForm EXCEPT !.email = <<>>, !.img = NoImage]}
\* well-formed forms: two people with the same face, and a third face
EnrolForms == {GoodForm, [GoodForm EXCEPT !.name = "Bob", !.id = "S2"],
               [GoodForm EXCEPT !.img = Image(<<450>>)]}

\* ---------------------------------------------------------------- state
VARIABLES
    faces_file,       \* known_faces.pkl: [exists, encodings, metadata]
    folders_file,     \* class_folders.pkl: [exists, map]
    in_session,       \* sessions whose session_state holds "class_folders"
    class_folders,    \* st.session_state.class_folders, per session
    known_faces,      \* the script's known_faces in the last run
    known_metadata,   \* the script's known_metadata in the last run
    drive_folders,    \* Drive folders ever created; a folder's id is its index
    drive_files,      \* Drive photos ever uploaded; a file's id is its index
    worksheets,       \* the spreadsheet: worksheet title -> rows
    cache,            \* st.cache_data of get_class_data: class name -> data frame
    today,            \* the calendar day of datetime.now()
    form,             \* the registration form submitted in the last run
    face_img,         \* the check-in image of the last run
    selected_class,   \* the check-in class of the last run
    download_class,   \* the export class of the last run
    download_date,    \* the export date of the last run
    message           \* what the last run's handler reported

vars == <<faces_file, folders_file, in_session, class_folders, known_faces,
          known_metadata, drive_folders, drive_files, worksheets, cache, today,
          form, face_img, selected_class, download_class, download_date, message>>

\* ---------------------------------------------------------------- maps
EmptyMap == [k \in {} |-> 0]
Put(m, k, v) == [x \in DOMAIN m \cup {k} |-> IF x = k THEN v ELSE m[x]]
Del(m, k) == [x \in DOMAIN m \ {k} |-> m[x]]

\* ---------------------------------------------------------------- text
\* A text is a sequence of pieces; `x in text` and startswith work on pieces.
Contains(text, c) == \E i \in DOMAIN text : text[i] = c
IsDigit(text) == Len(text) > 0 /\ \A i \in DOMAIN text : text[i] \in Digits
StartsWith(text, prefix) ==
    Len(text) >= Len(prefix) /\ SubSeq(text, 1, Len(prefix)) = prefix
\* str.strip on the class names the admin types
Strip(text) == IF text \in {"", " "} THEN "" ELSE text
\* str(date): "YYYY-MM-DD", one piece
DateStr(d) == <<ToString(d)>>
\* strftime("%Y-%m-%d %H:%M:%S")
Strftime(d) == DateStr(d) \o <<" ", "HH:MM:SS">>
Msg(text, name, id) == [text |-> text, name |-> name, id |-> id]
NoMsg == Msg("", "", "")

\* ---------------------------------------------------------------- files
NoFacesFile == [exists |-> FALSE, encodings |-> <<>>, metadata |-> <<>>]
NoFoldersFile == [exists |-> FALSE, map |-> EmptyMap]
\* a dump taken before the append: the new entry is not in it
DumpKnownFacesStale(encs, meta) ==
    [exists |-> TRUE, encodings |-> SubSeq(encs, 1, Len(encs) - 1),
     metadata |-> SubSeq(meta, 1, Len(meta) - 1)]
\* pickle.dump({"encodings": ..., "metadata": ...}) to known_faces.pkl
DumpKnownFaces(encs, meta) == [exists |-> TRUE, encodings |-> encs, metadata |-> meta]
\* the load at the top of every run; a missing file gives an empty gallery
LoadKnownFaces(file) ==
    IF file.exists THEN [encodings |-> file.encodings, metadata |-> file.metadata]
    ELSE [encodings |-> <<>>, metadata |-> <<>>]
\* pickle.dump(st.session_state.class_folders) to class_folders.pkl
DumpClassFolders(m) == [exists |-> TRUE, map |-> m]
\* the load of a new session; a missing file gives an empty registry
LoadClassFolders(file) == IF file.exists THEN file.map ELSE EmptyMap

\* ---------------------------------------------------------------- Drive
\* a create that reuses a folder of the same name
CreateFolderReuse(folders, name) ==
    IF \E i \in DOMAIN folders : folders[i] = name THEN folders ELSE Append(folders, name)
\* drive_service.files().create of a folder: the new folder's id is fresh
CreateFolder(folders, name) == Append(folders, name)
NewFolderId(folders) == Len(folders) + 1
\* the reconcile loop of a new session over DEFAULT_CLASS_LIST, from entry i on:
\* the registry and the Drive folders after it
RECURSIVE BootstrapFrom(_, _, _)
BootstrapFrom(i, m, folders) ==
    IF i > Len(DEFAULT_CLASS_LIST) THEN [map |-> m, folders |-> folders]
    ELSE LET cls == DEFAULT_CLASS_LIST[i] IN
         IF cls \notin DOMAIN m
         THEN BootstrapFrom(i + 1, Put(m, cls, NewFolderId(folders)),
                            CreateFolder(folders, cls))
         ELSE BootstrapFrom(i + 1, m, folders)
\* a reconcile loop that creates a folder for every default class, present or not
RECURSIVE BootstrapAlwaysFrom(_, _, _)
BootstrapAlwaysFrom(i, m, folders) ==
    IF i > Len(DEFAULT_CLASS_LIST) THEN [map |-> m, folders |-> folders]
    ELSE BootstrapAlwaysFrom(i + 1, Put(m, DEFAULT_CLASS_LIST[i], NewFolderId(folders)),
                             CreateFolder(folders, DEFAULT_CLASS_LIST[i]))
BootstrapAlways(m, folders) == BootstrapAlwaysFrom(1, m, folders)
Bootstrap(m, folders) == BootstrapFrom(1, m, folders)

\* ---------------------------------------------------------------- matcher
FaceEncodings(img) == img.faces
Abs(x) == IF x < 0 THEN -x ELSE x
\* face_recognition.face_distance: one distance per gallery entry
FaceDistance(known, e) == [i \in DOMAIN known |-> Abs(known[i] - e)]
MinOf(ds) == CHOOSE d \in {ds[i] : i \in DOMAIN ds} : \A j \in DOMAIN ds : d <= ds[j]
\* the last position holding v
IndexOfLast(ds, v) ==
    CHOOSE i \in DOMAIN ds : ds[i] = v /\ \A j \in (i + 1)..Len(ds) : ds[j] # v
\* list.index: the first position holding v
IndexOf(ds, v) == CHOOSE i \in DOMAIN ds : ds[i] = v /\ \A j \in 1..(i - 1) : ds[j] # v
\* an acceptance test that admits the threshold itself
AcceptsInclusive(min_distance) == min_distance <= Threshold
Accepts(min_distance) == min_distance < Threshold

\* ---------------------------------------------------------------- ledger
Header == << <<"Timestamp">>, <<"Name">>, <<"Student ID">>, <<"Email">>, <<"Phone">>,
             <<"Class">>, <<"Status">>, <<"Image URL">> >>
FileUrl(id) == <<"https://drive.google.com/file/d/", ToString(id), "/view">>
AttendanceRow(timestamp, matched, cls, url) ==
    << timestamp, <<matched.name>>, <<matched.student_id>>, matched.email,
       matched.phone, <<cls>>, <<"Present">>, url >>
\* worksheet.get_all_records(): the rows after the first, keyed by the first row
GetAllRecords(rows) ==
    IF Len(rows) < 2 THEN <<>>
    ELSE LET head == rows[1]
             keys == {head[i] : i \in DOMAIN head}
         IN [r \in 1..(Len(rows) - 1) |->
                [k \in keys |-> rows[r + 1][CHOOSE i \in DOMAIN head : head[i] = k]]]
\* the uncached body of get_class_data: a missing worksheet gives an empty frame
ReadClassData(sheets, class_name) ==
    IF class_name \in DOMAIN sheets THEN GetAllRecords(sheets[class_name]) ELSE <<>>
\* get_class_data under st.cache_data: a cached frame is returned as it is
GetClassData(c, sheets, class_name) ==
    IF class_name \in DOMAIN c THEN c[class_name] ELSE ReadClassData(sheets, class_name)
CacheAfter(c, sheets, class_name) ==
    IF class_name \in DOMAIN c THEN c
    ELSE Put(c, class_name, ReadClassData(sheets, class_name))
\* a filter that wants the timestamp to equal the date
FilterByDateExact(df, date) ==
    SelectSeq(df, LAMBDA rec : rec[<<"Timestamp">>] = DateStr(date))
\* df[df['Timestamp'].str.startswith(str(date))]
FilterByDate(df, date) ==
    SelectSeq(df, LAMBDA rec : StartsWith(rec[<<"Timestamp">>], DateStr(date)))

\* ---------------------------------------------------------------- messages
FillAllFields == "Please fill in all fields."
CaptureImage == "Please capture a face image."
InvalidEmail == "Invalid email."
InvalidPhone == "Invalid phone number."
NoFaceDetected == "No face detected."
Registered == "registered successfully!"
NoRegisteredFaces == "No registered faces found."
AttendanceSubmitted == "Attendance submitted for"
NotRecognized == "Face not recognized."
KeyError == "KeyError"
ClassNameEmpty == "Class name cannot be empty."
ClassExists == "Class already exists."
ClassAdded == "Class added."
ClassRemoved == "Class removed."
EnterValidCode == "Enter valid admin code."
NoDataForClass == "No attendance data for selected class."
NoDataForDate == "No data for selected date."
DownloadOffered == "Download attendance"

\* ---------------------------------------------------------------- registration
\* the checks of the register_form handler, in their order
RegisterCheck(f) ==
    IF f.name = "" \/ f.id = "" \/ f.email = <<>> \/ f.phone = <<>> THEN FillAllFields
    ELSE IF ~f.img.captured THEN CaptureImage
    ELSE IF ~Contains(f.email, "@") \/ ~Contains(f.email, ".") THEN InvalidEmail
    ELSE IF ~IsDigit(f.phone) \/ Len(f.phone) < MinPhoneLen \/ Len(f.phone) > MaxPhoneLen
         THEN InvalidPhone
    ELSE IF FaceEncodings(f.img) = <<>> THEN NoFaceDetected
    ELSE Registered
Identity(f) == [name |-> f.name, student_id |-> f.id, email |-> f.email, phone |-> f.phone]
\* a gallery keyed by student id: a second registration replaces the first
AppendMetadataKeyed(meta, f) ==
    IF \E i \in DOMAIN meta : meta[i].student_id = f.id
    THEN [i \in DOMAIN meta |-> IF meta[i].student_id = f.id THEN Identity(f) ELSE meta[i]]
    ELSE Append(meta, Identity(f))
\* known_faces.append / known_metadata.append
AppendFace(encs, f) == Append(encs, FaceEncodings(f.img)[1])
AppendMetadata(meta, f) == Append(meta, Identity(f))

\* the load of known_faces.pkl at the top of a run that registers nothing
Reload ==
    /\ known_faces' = LoadKnownFaces(faces_file).encodings
    /\ known_metadata' = LoadKnownFaces(faces_file).metadata
    /\ UNCHANGED faces_file

NoCheckIn == face_img' = NoImage /\ selected_class' = None
NoExport == download_class' = None /\ download_date' = today
NoForm == form' = BlankForm

\* ---------------------------------------------------------------- actions
\* The script runs top to bottom on every interaction; each action below is a
\* run in which one section of the page has its widget active. The admin
\* sections run with the admin code entered; AdminDenied is a run with a wrong
\* code.
Init ==
    /\ faces_file = NoFacesFile
    /\ folders_file = NoFoldersFile
    /\ in_session = {}
    /\ class_folders = [s \in Sessions |-> EmptyMap]
    /\ known_faces = <<>>
    /\ known_metadata = <<>>
    /\ drive_folders = <<>>
    /\ drive_files = <<>>
    /\ worksheets = EmptyMap
    /\ cache = EmptyMap
    /\ today = 1
    /\ form = BlankForm
    /\ face_img = NoImage
    /\ selected_class = None
    /\ download_class = None
    /\ download_date = 1
    /\ message = NoMsg

\* the first run of a session: load the gallery, load or create the registry,
\* reconcile it with the defaults, write it back
StartSession(s) ==
    /\ s \notin in_session
    /\ LET boot == Bootstrap(LoadClassFolders(folders_file), drive_folders) IN
        /\ Len(boot.folders) <= MaxFolders
        /\ class_folders' = [class_folders EXCEPT ![s] = boot.map]
        /\ drive_folders' = boot.folders
        /\ folders_file' = DumpClassFolders(boot.map)
    /\ in_session' = in_session \cup {s}
    /\ Reload /\ NoForm /\ NoCheckIn /\ NoExport
    /\ message' = NoMsg
    /\ UNCHANGED <<drive_files, worksheets, cache, today>>

\* the browser session ends: its session_state is gone
EndSession(s) ==
    /\ s \in in_session
    /\ in_session' = in_session \ {s}
    /\ class_folders' = [class_folders EXCEPT ![s] = EmptyMap]
    /\ UNCHANGED <<faces_file, folders_file, known_faces, known_metadata, drive_folders,
                   drive_files, worksheets, cache, today, form, face_img,
                   selected_class, download_class, download_date, message>>

\* a run with the Register button pressed
Register(s, f) ==
    /\ s \in in_session
    /\ Len(LoadKnownFaces(faces_file).encodings) < MaxGallery
    /\ LET loaded == LoadKnownFaces(faces_file)
           text == RegisterCheck(f)
       IN IF text = Registered
          THEN /\ known_faces' = AppendFace(loaded.encodings, f)
               /\ known_metadata' = AppendMetadata(loaded.metadata, f)
               /\ faces_file' = DumpKnownFaces(known_faces', known_metadata')
               /\ message' = Msg(Registered, f.name, "")
          ELSE /\ known_faces' = loaded.encodings
               /\ known_metadata' = loaded.metadata
               /\ UNCHANGED faces_file
               /\ message' = Msg(text, "", "")
    /\ form' = f
    /\ NoCheckIn /\ NoExport
    /\ UNCHANGED <<folders_file, in_session, class_folders, drive_folders, drive_files,
                   worksheets, cache, today>>

\* a handler with no branch for the empty gallery
CheckInOutcomeNoEmptyBranch(known, img) ==
    IF FaceEncodings(img) = <<>> THEN NoFaceDetected
    ELSE IF known # <<>> /\ Accepts(MinOf(FaceDistance(known, FaceEncodings(img)[1])))
         THEN AttendanceSubmitted
    ELSE NotRecognized
\* what the attendance handler decides from the gallery and the image
CheckInOutcome(known, img) ==
    IF FaceEncodings(img) = <<>> THEN NoFaceDetected
    ELSE IF known = <<>> THEN NoRegisteredFaces
    ELSE IF Accepts(MinOf(FaceDistance(known, FaceEncodings(img)[1])))
         THEN AttendanceSubmitted
    ELSE NotRecognized
\* known_metadata[best_match_index]
BestMatch(known, meta, img) ==
    LET distances == FaceDistance(known, FaceEncodings(img)[1])
    IN meta[IndexOf(distances, MinOf(distances))]
\* the upload of the evidence photo into the class's folder
Upload(files, matched, cls, day, parent) ==
    Append(files, [name |-> <<matched.name, matched.student_id, cls, ToString(day)>>,
                   parent |-> parent])
\* a new worksheet gets no header row
AppendAttendanceNoHeader(sheets, cls, row) ==
    IF cls \in DOMAIN sheets THEN [sheets EXCEPT ![cls] = Append(@, row)]
    ELSE Put(sheets, cls, <<row>>)
\* open the class's worksheet, or add it with the header row; then append the row
AppendAttendance(sheets, cls, row) ==
    IF cls \in DOMAIN sheets THEN [sheets EXCEPT ![cls] = Append(@, row)]
    ELSE Put(sheets, cls, <<Header, row>>)

\* a run with a check-in image captured
Attendance(s, cls, img) ==
    /\ s \in in_session
    /\ img.captured
    /\ Len(drive_files) < MaxUploads
    /\ IF class_folders[s] = EmptyMap THEN cls = None ELSE cls \in DOMAIN class_folders[s]
    /\ Reload
    /\ LET text == CheckInOutcome(known_faces', img) IN
       IF text # AttendanceSubmitted
       THEN /\ message' = Msg(text, "", "")
            /\ UNCHANGED <<drive_files, worksheets>>
       ELSE IF cls \notin DOMAIN class_folders[s]
       THEN /\ message' = Msg(KeyError, "", "")
            /\ UNCHANGED <<drive_files, worksheets>>
       ELSE LET matched == BestMatch(known_faces', known_metadata', img) IN
            /\ drive_files' = Upload(drive_files, matched, cls, today, class_folders[s][cls])
            /\ worksheets' = AppendAttendance(worksheets, cls,
                   AttendanceRow(Strftime(today), matched, cls, FileUrl(Len(drive_files'))))
            /\ message' = Msg(AttendanceSubmitted, matched.name, matched.student_id)
    /\ face_img' = img
    /\ selected_class' = cls
    /\ NoForm /\ NoExport
    /\ UNCHANGED <<folders_file, in_session, class_folders, drive_folders, cache, today>>

\* the dashboard section of the admin panel shows a class: it reads the
\* class's frame through the cache
ViewDashboard(s, selected) ==
    /\ s \in in_session
    /\ IF class_folders[s] = EmptyMap THEN selected = None
       ELSE selected \in DOMAIN class_folders[s]
    /\ cache' = CacheAfter(cache, worksheets, selected)
    /\ message' = NoMsg
    /\ Reload /\ NoForm /\ NoCheckIn /\ NoExport
    /\ UNCHANGED <<folders_file, in_session, class_folders, drive_folders, drive_files,
                   worksheets, today>>

\* a run with the Add Class button pressed
AddClass(s, new_class) ==
    /\ s \in in_session
    /\ IF Strip(new_class) = ""
       THEN /\ message' = Msg(ClassNameEmpty, "", "")
            /\ UNCHANGED <<class_folders, drive_folders, folders_file>>
       ELSE IF new_class \in DOMAIN class_folders[s]
       THEN /\ message' = Msg(ClassExists, "", "")
            /\ UNCHANGED <<class_folders, drive_folders, folders_file>>
       ELSE /\ Len(drive_folders) < MaxFolders
            /\ drive_folders' = CreateFolder(drive_folders, new_class)
            /\ class_folders' = [class_folders EXCEPT
                                    ![s] = Put(@, new_class, NewFolderId(drive_folders))]
            /\ folders_file' = DumpClassFolders(class_folders'[s])
            /\ message' = Msg(ClassAdded, new_class, "")
    /\ known_faces' = LoadKnownFaces(faces_file).encodings
    /\ known_metadata' = LoadKnownFaces(faces_file).metadata
    /\ NoForm /\ NoCheckIn /\ NoExport
    /\ UNCHANGED <<faces_file, in_session, drive_files, worksheets, cache, today>>

\* a run with the Remove Class button pressed
RemoveClass(s, class_to_remove) ==
    /\ s \in in_session
    /\ class_to_remove \in DOMAIN class_folders[s]
    /\ class_folders' = [class_folders EXCEPT ![s] = Del(@, class_to_remove)]
    /\ folders_file' = DumpClassFolders(class_folders'[s])
    /\ message' = Msg(ClassRemoved, class_to_remove, "")
    /\ known_faces' = LoadKnownFaces(faces_file).encodings
    /\ known_metadata' = LoadKnownFaces(faces_file).metadata
    /\ NoForm /\ NoCheckIn /\ NoExport
    /\ UNCHANGED <<faces_file, in_session, drive_folders, drive_files, worksheets, cache,
                   today>>

\* what the Download CSV handler reports for the frame it read
ExportOutcome(df, date) ==
    IF df = <<>> THEN NoDataForClass
    ELSE IF FilterByDate(df, date) = <<>> THEN NoDataForDate
    ELSE DownloadOffered

\* a run with the Download CSV button pressed
DownloadCSV(s, cls, date) ==
    /\ s \in in_session
    /\ IF class_folders[s] = EmptyMap THEN cls = None ELSE cls \in DOMAIN class_folders[s]
    /\ cache' = CacheAfter(cache, worksheets, cls)
    /\ message' = Msg(ExportOutcome(GetClassData(cache, worksheets, cls), date), "", "")
    /\ download_class' = cls
    /\ download_date' = date
    /\ Reload /\ NoForm /\ NoCheckIn
    /\ UNCHANGED <<folders_file, in_session, class_folders, drive_folders, drive_files,
                   worksheets, today>>

\* a run of the admin panel with a wrong, non-empty admin code
AdminDenied(s) ==
    /\ s \in in_session
    /\ message' = Msg(EnterValidCode, "", "")
    /\ Reload /\ NoForm /\ NoCheckIn /\ NoExport
    /\ UNCHANGED <<folders_file, in_session, class_folders, drive_folders, drive_files,
                   worksheets, cache, today>>

\* the ttl of a cached frame runs out
CacheExpire(class_name) ==
    /\ class_name \in DOMAIN cache
    /\ cache' = Del(cache, class_name)
    /\ UNCHANGED <<faces_file, folders_file, in_session, class_folders, known_faces,
                   known_metadata, drive_folders, drive_files, worksheets, today, form,
                   face_img, selected_class, download_class, download_date, message>>

\* midnight passes
AdvanceDay ==
    /\ today < MaxDay
    /\ today' = today + 1
    /\ UNCHANGED <<faces_file, folders_file, in_session, class_folders, known_faces,
                   known_metadata, drive_folders, drive_files, worksheets, cache, form,
                   face_img, selected_class, download_class, download_date, message>>

Next ==
    \/ \E s \in Sessions : StartSession(s)
    \/ \E s \in Sessions : EndSession(s)
    \/ \E s \in Sessions, f \in RegForms : Register(s, f)
    \/ \E s \in Sessions, cls \in ClassNames \cup {None}, img \in Images :
           Attendance(s, cls, img)
    \/ \E s \in Sessions, n \in TypedClassNames : AddClass(s, n)
    \/ \E s \in Sessions, c \in ClassNames : RemoveClass(s, c)
    \/ \E s \in Sessions, sel \in ClassNames \cup {None} : ViewDashboard(s, sel)
    \/ \E s \in Sessions, c \in ClassNames \cup {None}, d \in 1..MaxDay :
           DownloadCSV(s, c, d)
    \/ \E s \in Sessions : AdminDenied(s)
    \/ \E c \in ClassNames \cup {None} : CacheExpire(c)
    \/ AdvanceDay

Spec == Init /\ [][Next]_vars

\* ---------------------------------------------------------------- projections
\* The whole system is the product of the gallery, the registry, the ledger and
\* the cache; each specification below runs the handlers one concern needs.

\* registration: every form, both sessions
NextRegistration ==
    \/ \E s \in Sessions : StartSession(s)
    \/ \E s \in Sessions, f \in RegForms : Register(s, f)
SpecRegistration == Init /\ [][NextRegistration]_vars

\* check-in: enrolment, check-ins and removal of classes
NextAttendance ==
    \/ \E s \in Sessions : StartSession(s)
    \/ \E f \in EnrolForms : Register("s1", f)
    \/ \E s \in Sessions, cls \in ClassNames \cup {None}, img \in Images :
           Attendance(s, cls, img)
    \/ \E c \in ClassNames : RemoveClass("s1", c)
SpecAttendance == Init /\ [][NextAttendance]_vars

\* class registry: sessions come and go, classes are added and removed
NextRegistry ==
    \/ \E s \in Sessions : StartSession(s)
    \/ \E s \in Sessions : EndSession(s)
    \/ \E s \in Sessions, n \in TypedClassNames : AddClass(s, n)
    \/ \E s \in Sessions, c \in ClassNames : RemoveClass(s, c)
SpecRegistry == Init /\ [][NextRegistry]_vars

\* class registry with no removal
NextBootstrap ==
    \/ \E s \in Sessions : StartSession(s)
    \/ \E s \in Sessions : EndSession(s)
    \/ \E s \in Sessions, n \in TypedClassNames : AddClass(s, n)
    \/ \E s \in Sessions : AdminDenied(s)
    \/ \E s \in Sessions, sel \in ClassNames : ViewDashboard(s, sel)
SpecBootstrap == Init /\ [][NextBootstrap]_vars

\* persistence: every handler that writes a file
NextPersist ==
    \/ \E s \in Sessions : StartSession(s)
    \/ \E s \in Sessions : EndSession(s)
    \/ \E s \in Sessions, f \in {GoodForm, [GoodForm EXCEPT !.email = <<>>]} :
           Register(s, f)
    \/ \E s \in Sessions, n \in TypedClassNames : AddClass(s, n)
    \/ \E s \in Sessions, c \in ClassNames : RemoveClass(s, c)
SpecPersist == Init /\ [][NextPersist]_vars

\* export: one enrolled person checks in on several days, the admin exports
NextExport ==
    \/ StartSession("s1")
    \/ Register("s1", GoodForm)
    \/ \E cls \in ClassNames, img \in {Image(<<0>>), Image(<<900>>)} :
           Attendance("s1", cls, img)
    \/ \E sel \in ClassNames : ViewDashboard("s1", sel)
    \/ \E c \in ClassNames, d \in 1..MaxDay : DownloadCSV("s1", c, d)
    \/ \E c \in ClassNames : CacheExpire(c)
    \/ AdvanceDay
SpecExport == Init /\ [][NextExport]_vars

\* ---------------------------------------------------------------- claims
\* the step is a run of the script: no session ended, no cached frame
\* expired, the day did not change
ScriptRan ==
    /\ in_session \subseteq in_session'
    /\ DOMAIN cache \subseteq DOMAIN cache'
    /\ today' = today
\* a run of the Register handler is the only run that leaves a form behind
RegisterRan == ScriptRan /\ form' # BlankForm
\* a submission as the claims describe a good one: four fields present, the
\* email with an at sign and a dot, the phone 10 to 15 digits, an image
\* captured, a face found in it
WellFormed(f) ==
    /\ f.name # "" /\ f.id # "" /\ f.email # <<>> /\ f.phone # <<>>
    /\ (\E i \in DOMAIN f.email : f.email[i] = "@")
    /\ (\E i \in DOMAIN f.email : f.email[i] = ".")
    /\ (\A i \in DOMAIN f.phone : f.phone[i] \in Digits)
    /\ Len(f.phone) \in MinPhoneLen..MaxPhoneLen
    /\ f.img.captured
GalleryUnchanged ==
    /\ faces_file' = faces_file
    /\ known_faces' = known_faces
    /\ known_metadata' = known_metadata

\* C1: every well-formed registration with a detected face adds exactly one
\* entry to both lists of the gallery, the new last entry carries the submitted
\* name, student id, email and phone, and the earlier entries stay as they
\* were, also when the student id is already in the gallery.
C1_RegistrationAppendsOne ==
    [][(RegisterRan /\ WellFormed(form') /\ Len(form'.img.faces) >= 1) =>
        /\ Len(known_faces') = Len(known_faces) + 1
        /\ Len(known_metadata') = Len(known_metadata) + 1
        /\ SubSeq(known_faces', 1, Len(known_faces)) = known_faces
        /\ SubSeq(known_metadata', 1, Len(known_metadata)) = known_metadata
        /\ known_metadata'[Len(known_metadata')] =
               [name |-> form'.name, student_id |-> form'.id,
                email |-> form'.email, phone |-> form'.phone]
        /\ message'.text = Registered]_vars
\* a second entry was registered under a student id the gallery already held
C1_Witness ==
    /\ message.text = Registered
    /\ Len(known_metadata) = 2
    /\ known_metadata[1].student_id = known_metadata[2].student_id
    /\ known_metadata[1].name # known_metadata[2].name
    /\ known_metadata[2].name = form.name

\* C2: a registration mutates the gallery and its file only when the form is
\* well-formed and exactly one face is detected; every other submission,
\* multi-face images included, is reported as an error and changes nothing.
C2_OnlySingleFaceMutates ==
    [][(RegisterRan /\ ~(WellFormed(form') /\ Len(form'.img.faces) = 1)) =>
        /\ GalleryUnchanged
        /\ message'.text \in {FillAllFields, CaptureImage, InvalidEmail, InvalidPhone,
                              NoFaceDetected}]_vars
\* what the handler does: nothing is mutated when the form is not well-formed
\* or no face is detected
C2_RejectedLeavesGallery ==
    [][(RegisterRan /\ ~(WellFormed(form') /\ Len(form'.img.faces) >= 1)) =>
        /\ GalleryUnchanged
        /\ message'.text \in {FillAllFields, CaptureImage, InvalidEmail, InvalidPhone,
                              NoFaceDetected}]_vars

\* a run of the attendance handler is the only run that leaves an image behind
CheckInRan == ScriptRan /\ face_img'.captured
\* the query embedding lies strictly within the threshold of some gallery entry
WithinThreshold(known, q) ==
    \E i \in DOMAIN known : (known[i] - q) < Threshold /\ (q - known[i]) < Threshold
\* the attendance rows of a table, and of the whole ledger
DataRows(sheets, c) == IF c \in DOMAIN sheets THEN Len(sheets[c]) - 1 ELSE 0
CheckInAccepted ==
    /\ Len(drive_files') = Len(drive_files) + 1
    /\ selected_class' \in DOMAIN worksheets'
    /\ DataRows(worksheets', selected_class') = DataRows(worksheets, selected_class') + 1
CheckInRejected ==
    /\ drive_files' = drive_files
    /\ worksheets' = worksheets

\* C3: a check-in is accepted, with its photo uploaded and a ledger row
\* appended, exactly when the gallery is non-empty and the least distance to
\* the query embedding is strictly below 0.45; every other check-in uploads
\* nothing, creates no table and appends no row.
C3_AcceptedIffBelowThreshold ==
    [][CheckInRan =>
        IF /\ face_img'.faces # <<>>
           /\ known_faces' # <<>>
           /\ WithinThreshold(known_faces', face_img'.faces[1])
        THEN CheckInAccepted
        ELSE CheckInRejected]_vars
\* C3 as the handler has it: the check-in also needs a class to be selected,
\* which no session has once its registry is empty
C3_AcceptedIffBelowThresholdAndClass ==
    [][CheckInRan =>
        IF /\ face_img'.faces # <<>>
           /\ known_faces' # <<>>
           /\ WithinThreshold(known_faces', face_img'.faces[1])
           /\ selected_class' # None
        THEN CheckInAccepted
        ELSE CheckInRejected]_vars
\* a check-in at a distance of exactly 0.45 from the only gallery entry was
\* turned down
C3_Witness ==
    /\ face_img.captured
    /\ known_faces = <<450>>
    /\ face_img.faces = <<900>>
    /\ selected_class # None
    /\ message.text = NotRecognized

\* the row a check-in appended to its class's table
LastRow == worksheets'[selected_class'][Len(worksheets'[selected_class'])]
RowCarries(row, identity) ==
    /\ row[2] = <<identity.name>>
    /\ row[3] = <<identity.student_id>>
    /\ row[7] = <<"Present">>
OtherTablesUnchanged ==
    \A c \in DOMAIN worksheets : c # selected_class' => worksheets'[c] = worksheets[c]

\* C4: a check-in whose query embedding equals the embedding of a registered
\* entry is matched to that entry at distance 0 and appends exactly one row
\* with that entry's name and student id and the status Present, whichever
\* entry of the gallery holds the embedding.
C4_EqualEmbeddingMatchesEntry ==
    [][(CheckInRan /\ face_img'.faces # <<>>) =>
        \A i \in DOMAIN known_faces' :
            known_faces'[i] = face_img'.faces[1] =>
                /\ CheckInAccepted
                /\ OtherTablesUnchanged
                /\ RowCarries(LastRow, known_metadata'[i])
                /\ message' = Msg(AttendanceSubmitted, known_metadata'[i].name,
                                  known_metadata'[i].student_id)]_vars
\* C4 as the matcher has it: among the entries holding the embedding the one
\* registered first is matched, and the row is appended when a class is selected
C4_EqualEmbeddingMatchesFirstEntry ==
    [][(CheckInRan /\ face_img'.faces # <<>> /\ selected_class' # None) =>
        \A i \in DOMAIN known_faces' :
            (/\ known_faces'[i] = face_img'.faces[1]
             /\ \A j \in 1..(i - 1) : known_faces'[j] # face_img'.faces[1]) =>
                /\ MinOf(FaceDistance(known_faces', face_img'.faces[1])) = 0
                /\ CheckInAccepted
                /\ OtherTablesUnchanged
                /\ RowCarries(LastRow, known_metadata'[i])
                /\ message' = Msg(AttendanceSubmitted, known_metadata'[i].name,
                                  known_metadata'[i].student_id)]_vars
\* a face registered twice under two names checked in and was matched to the
\* first of them
C4_Witness ==
    /\ face_img.captured
    /\ Len(known_faces) = 2
    /\ known_faces[1] = known_faces[2]
    /\ known_metadata[1].name # known_metadata[2].name
    /\ face_img.faces = <<known_faces[2]>>
    /\ message = Msg(AttendanceSubmitted, known_metadata[1].name,
                     known_metadata[1].student_id)

\* C5: a check-in with a detected face against an empty gallery ends with
\* "no registered faces" and never with "face not recognized", and "no
\* registered faces" is never reported when the gallery is non-empty.
C5_EmptyGalleryReported ==
    face_img.captured =>
        /\ (known_faces = <<>> /\ face_img.faces # <<>>) =>
               (message.text = NoRegisteredFaces /\ message.text # NotRecognized)
        /\ message.text = NoRegisteredFaces => known_faces = <<>>
\* a detected face met an empty gallery
C5_Witness ==
    /\ face_img.captured
    /\ face_img.faces # <<>>
    /\ known_faces = <<>>
    /\ message.text = NoRegisteredFaces

\* the photos uploaded for a class
UploadsFor(c) == {i \in DOMAIN drive_files : drive_files[i].name[3] = c}

\* every table starts with the header row, holds it once, and holds one
\* further row for each photo uploaded for its class; a class with no upload
\* has no table
TablesWellFormed ==
    /\ \A c \in DOMAIN worksheets :
        /\ Len(worksheets[c]) >= 2
        /\ worksheets[c][1] = Header
        /\ \A i \in 2..Len(worksheets[c]) : worksheets[c][i] # Header
        /\ Len(worksheets[c]) - 1 = Cardinality(UploadsFor(c))
    /\ \A c \in ClassNames : c \notin DOMAIN worksheets => UploadsFor(c) = {}
\* an accepted check-in appends one row to its class's table and touches no
\* other; a table that did not exist is created with the header before the row
AcceptedAppendsOneRow ==
    (CheckInRan /\ message'.text = AttendanceSubmitted) =>
        LET c == selected_class' IN
        /\ OtherTablesUnchanged
        /\ DOMAIN worksheets' = DOMAIN worksheets \cup {c}
        /\ IF c \in DOMAIN worksheets
           THEN /\ SubSeq(worksheets'[c], 1, Len(worksheets[c])) = worksheets[c]
                /\ Len(worksheets'[c]) = Len(worksheets[c]) + 1
           ELSE /\ Len(worksheets'[c]) = 2
                /\ worksheets'[c][1] = Header
        /\ LastRow[6] = <<c>>
        /\ LastRow[7] = <<"Present">>

\* C7: every accepted check-in for a class appends exactly one row to the
\* class's table, which is created with the fixed header row first when it
\* did not exist; so every table starts with the header, holds it once, and
\* its other rows number the accepted check-ins of its class.
C7_LedgerAppendOnly == []TablesWellFormed /\ [][AcceptedAppendsOneRow]_vars
\* a table holds the header and two attendance rows
C7_Witness ==
    \E c \in DOMAIN worksheets :
        /\ Len(worksheets[c]) = 3
        /\ Cardinality(UploadsFor(c)) = 2
        /\ message.text = AttendanceSubmitted

\* the sessions whose first run this step is
Started == in_session' \ in_session
RegistryUnchanged ==
    /\ drive_folders' = drive_folders
    /\ folders_file' = folders_file
    /\ \A s \in in_session : class_folders'[s] = class_folders[s]
FoldersNamed(c) == {i \in DOMAIN drive_folders' : drive_folders'[i] = c}

\* C6: with no class removed, a bootstrap that finds the registry file of an
\* earlier bootstrap creates no folder, adds no entry and keeps every mapping
\* of the file; a later run of a session that has its registry does not
\* bootstrap again; after a bootstrap every default class maps to the one
\* folder created for it.
C6_BootstrapIdempotent ==
    [][/\ \A s \in Started :
            /\ \A c \in DefaultNames :
                /\ c \in DOMAIN class_folders'[s]
                /\ FoldersNamed(c) = {class_folders'[s][c]}
            /\ folders_file.exists =>
                /\ drive_folders' = drive_folders
                /\ class_folders'[s] = folders_file.map
                /\ folders_file' = folders_file
                /\ \A o \in in_session : class_folders'[o] = class_folders[o]
       /\ (ScriptRan /\ Started = {} /\ message'.text \in {EnterValidCode, ""}) =>
            RegistryUnchanged]_vars
\* a second session bootstrapped from the file the first one wrote, and a
\* class was added since
C6_Witness ==
    /\ in_session = Sessions
    /\ folders_file.exists
    /\ Len(drive_folders) = Len(DEFAULT_CLASS_LIST) + 1
    /\ class_folders["s1"] = class_folders["s2"]
    /\ "NEW" \in DOMAIN class_folders["s1"]

\* the sessions whose registry this step wrote: those it started and those
\* whose registry it changed
Mutators == Started \cup {s \in in_session' : class_folders'[s] # class_folders[s]}

\* C8: after a registration, an added class, a removed class and a bootstrap
\* the file holds what the session that ran it has in memory: a load of the
\* file gives that gallery and that registry; a run that mutates nothing
\* leaves the files as they were.
C8_WriteThrough ==
    [][/\ LoadKnownFaces(faces_file').encodings = known_faces'
       /\ LoadKnownFaces(faces_file').metadata = known_metadata'
       /\ (ScriptRan /\ message'.text = Registered) =>
            (faces_file'.exists /\ Len(faces_file'.metadata) = Len(known_metadata) + 1)
       /\ \A s \in Mutators :
            /\ folders_file'.exists
            /\ LoadClassFolders(folders_file') = class_folders'[s]
       /\ Mutators = {} => folders_file' = folders_file
       /\ ~(ScriptRan /\ message'.text = Registered) => faces_file' = faces_file]_vars
\* a class was removed in one session while the other still holds it, with a
\* gallery on file
C8_Witness ==
    /\ message.text = ClassRemoved
    /\ in_session = Sessions
    /\ class_folders["s1"] # class_folders["s2"]
    /\ faces_file.exists
    /\ Len(known_faces) = 2

\* C9: an added class gets a folder created by that very step, whose handle
\* no folder had before, so a class removed and added again never maps to its
\* earlier handle; removing a class deletes no folder.
C9_AddCreatesFreshFolder ==
    [][/\ (ScriptRan /\ message'.text = ClassAdded) =>
            \E s \in in_session :
                /\ message'.name \notin DOMAIN class_folders[s]
                /\ message'.name \in DOMAIN class_folders'[s]
                /\ Len(drive_folders') = Len(drive_folders) + 1
                /\ SubSeq(drive_folders', 1, Len(drive_folders)) = drive_folders
                /\ drive_folders'[Len(drive_folders')] = message'.name
                /\ class_folders'[s][message'.name] = Len(drive_folders')
                /\ class_folders'[s][message'.name] \notin DOMAIN drive_folders
                /\ \A o \in Sessions : \A c \in DOMAIN class_folders[o] :
                       class_folders[o][c] # class_folders'[s][message'.name]
       /\ (ScriptRan /\ message'.text = ClassRemoved) =>
            /\ drive_folders' = drive_folders
            /\ \E s \in in_session :
                /\ message'.name \in DOMAIN class_folders[s]
                /\ message'.name \notin DOMAIN class_folders'[s]
                /\ class_folders[s][message'.name] \in DOMAIN drive_folders'
                /\ drive_folders'[class_folders[s][message'.name]] = message'.name]_vars
\* a default class was removed and added again: two folders carry its name and
\* the registry maps it to the later one
C9_Witness ==
    /\ message.text = ClassAdded
    /\ message.name \in DefaultNames
    /\ \E s \in in_session :
        /\ message.name \in DOMAIN class_folders[s]
        /\ \E i \in DOMAIN drive_folders :
            /\ drive_folders[i] = message.name
            /\ i < class_folders[s][message.name]
            /\ drive_folders[class_folders[s][message.name]] = message.name

\* the Download CSV handler ran for a class
ExportRan == ScriptRan /\ download_class' # None
\* the rows of a frame that fall on a date
OnDate(df, d) == {i \in DOMAIN df : df[i][<<"Timestamp">>][1] = ToString(d)}
\* the attendance rows of the class's table that fall on a date
TableRowsOnDate(c, d) ==
    {i \in 2..Len(worksheets[c]) : worksheets[c][i][1][1] = ToString(d)}
\* the frame the handler reads: the cached one while it lasts, else the rows
\* of the table below its first row
FrameRead(c) ==
    IF c \in DOMAIN cache THEN cache[c]
    ELSE IF c \in DOMAIN worksheets /\ Len(worksheets[c]) >= 2
         THEN [i \in 1..(Len(worksheets[c]) - 1) |->
                  [k \in {Header[j] : j \in DOMAIN Header} |->
                      worksheets[c][i + 1][CHOOSE j \in DOMAIN Header : Header[j] = k]]]
         ELSE <<>>

\* C10: an export for a class whose table exists and holds no row of the
\* chosen date ends with the "no data for selected date" outcome, never with
\* the outcome of a class that has no table.
C10_EmptyDateDistinctFromNoTable ==
    [][(/\ ExportRan
        /\ download_class' \in DOMAIN worksheets
        /\ TableRowsOnDate(download_class', download_date') = {}) =>
            (message'.text = NoDataForDate /\ message'.text # NoDataForClass)]_vars
\* C10 as the handler has it: the outcome follows the frame read through the
\* cache; a frame with rows, none of the chosen date, gives "no data for
\* selected date", and a frame with no row (no table, or a frame cached before
\* the table had rows) gives the outcome of a class with no table
C10_EmptyDateDistinctWhenFrameHasRows ==
    [][ExportRan =>
        LET df == FrameRead(download_class') IN
        /\ (df # <<>> /\ OnDate(df, download_date') = {}) <=> message'.text = NoDataForDate
        /\ df = <<>> <=> message'.text = NoDataForClass
        /\ (download_class' \notin DOMAIN cache
            /\ download_class' \in DOMAIN worksheets
            /\ TableRowsOnDate(download_class', download_date') = {}) =>
                message'.text = NoDataForDate]_vars
\* an export of a table with rows found none of the chosen date
C10_Witness ==
    /\ download_class \in DOMAIN worksheets
    /\ TableRowsOnDate(download_class, download_date) = {}
    /\ Len(worksheets[download_class]) >= 2
    /\ message.text = NoDataForDate

====
